---------------------------- MODULE Spec2Model ----------------------------
(***************************************************************************)
(* A model of allauth/socialaccount/models.py: the SocialLogin handshake   *)
(* object (lookup / save / connect / serialize / deserialize), the         *)
(* verifier stash kept in request.session, and the three tables the ORM    *)
(* keeps for it (users, SocialAccount, SocialToken).                       *)
(*                                                                         *)
(* Five specifications share the variables below:                          *)
(*   SpecStash : stash_state / unstash_state / verify_and_unstash_state    *)
(*   SpecCodec : serialize / deserialize                                   *)
(*   Spec      : SocialLogin construction, lookup, save, connect           *)
(*   SpecLists : the email_addresses list objects of SocialLogin instances *)
(*   SpecRace  : lookup and save of concurrent requests, step by step      *)
(* Each leaves the variables of the others at their initial value.         *)
(*                                                                         *)
(* History variables (they record what a call saw and did, the code has    *)
(* no such fields): call, outcome, ret, pre, latest, overwritten,          *)
(* pendingCount, burned, effects, nSessions, and the atBirth and added     *)
(* fields of logins.  effects also lists the token reads (token.get) of a  *)
(* call.                                                                   *)
(*                                                                         *)
(* Not modelled: the clock (SocialAccount.last_login / date_joined), the   *)
(* rows setup_user_email writes, and a rollback by an enclosing            *)
(* transaction (each Model.save is taken to commit on its own).            *)
(* Assertions are taken to be enabled.                                     *)
(***************************************************************************)
EXTENDS Integers, Sequences, FiniteSets, TLC

VARIABLES
    \* ---- the verifier stash (request.session) ----
    session,        \* request.session: a mapping from keys to values
    latest,         \* history: {} or {the request, state and verifier of the newest stash_state}
    overwritten,    \* history: verifiers of the entries a later stash_state replaced,
                    \*          since the last stash_state into an empty slot
    pendingCount,   \* history: number of stash_state calls since the last pop
    burned,         \* history: verifiers whose entry a mismatching verify consumed,
                    \*          since the last stash_state
    \* ---- the handshake object and the tables behind it ----
    storeTokens,    \* app_settings.STORE_TOKENS
    users,          \* rows of the user table
    accounts,       \* rows of SocialAccount
    tokens,         \* rows of SocialToken
    sl,             \* the SocialLogin instance in hand
    effects,        \* history: the writes and collaborator calls of the last call, in order
    nSessions,      \* history: number of SocialLogin instances constructed so far
    \* ---- serialize / deserialize ----
    wire,           \* {} or {the mapping serialize returned}
    back,           \* {} or {the SocialLogin deserialize returned}
    \* ---- the e-mail lists of SocialLogin instances ----
    defaultEmails,  \* the list object that is the default of __init__'s
                    \* email_addresses parameter (line 195)
    logins,         \* the SocialLogin instances constructed, in order: which
                    \* list object each one's email_addresses is
    \* ---- concurrent handshakes ----
    procs,          \* per request: where its handshake stands and what it holds
    \* ---- every specification ----
    call,           \* history: the last call and its arguments
    outcome,        \* history: "ok" or the exception class the last call raised
    ret,            \* history: {} or {the value the last call returned}
    pre             \* history: the state the last call started from

stashVars == <<session, latest, overwritten, pendingCount, burned>>

dbVars == <<storeTokens, users, accounts, tokens, effects, nSessions>>

codecVars == <<wire, back>>

listVars == <<defaultEmails, logins>>

raceVars == <<procs>>

vars == <<stashVars, dbVars, sl, codecVars, listVars, raceVars,
          call, outcome, ret, pre>>

(***************************************************************************)
(* Bounds                                                                  *)
(***************************************************************************)
\* stash_state calls allowed without a pop in between
MaxPending == 2

\* longest list of e-mail addresses a provider hands to a SocialLogin
MaxEmails == 2

\* SocialLogin instances constructed in one run
MaxSessions == 2

\* requests whose handshakes run at the same time
MaxRequests == 2

(***************************************************************************)
(* The verifier stash                                                      *)
(***************************************************************************)
\* the one fixed key of lines 319, 324, 326, 331, 333
SESSION_KEY == "socialaccount_state"

\* a key some other part of the site keeps in the same session store
OtherKey == "_auth_user_id"

\* the strings get_random_string() may return (line 318); it may repeat itself
Verifiers == {"v1", "v2"}

\* the strings a caller may hand to verify_and_unstash_state
SuppliedVerifiers == Verifiers \cup {"wrong", "V1"}

\* request parameters state_from_request reads, and the value a request
\* carries for each when it carries one
Params == {"next", "process", "scope", "auth_params"}

ParamValue(p) ==
    CASE p = "next" -> "/home"
      [] p = "process" -> "connect"
      [] p = "scope" -> "email"
      [] p = "auth_params" -> "x=1"

\* a request is the mapping of the parameters it carries
Requests == { [p \in D |-> ParamValue(p)] : D \in SUBSET Params }

NoRequest == [p \in {} |-> ""]

\* allauth.utils.get_request_param(request, param, default)
get_request_param(request, param, default) ==
    IF param \in DOMAIN request THEN request[param] ELSE default

\* allauth.account.utils.get_next_redirect_url(request): the redirect
\* target, "" standing for None
get_next_redirect_url(request) ==
    get_request_param(request, "next", "")

\* faulty variant: the next key is set whether or not the request has a
\* redirect target
state_from_request_always_next(request) ==
    [k \in {"next", "process", "scope", "auth_params"} |->
        CASE k = "next" -> get_next_redirect_url(request)
          [] k = "process" -> get_request_param(request, "process", "login")
          [] k = "scope" -> get_request_param(request, "scope", "")
          [] k = "auth_params" -> get_request_param(request, "auth_params", "")]

\* SocialLogin.state_from_request (lines 304-313)
state_from_request(request) ==
    LET next_url == get_next_redirect_url(request)
        keys == {"process", "scope", "auth_params"}
                  \cup (IF next_url # "" THEN {"next"} ELSE {})
    IN  [k \in keys |->
            CASE k = "next" -> next_url
              [] k = "process" -> get_request_param(request, "process", "login")
              [] k = "scope" -> get_request_param(request, "scope", "")
              [] k = "auth_params" -> get_request_param(request, "auth_params", "")]

\* SocialLogin.get_redirect_url (lines 300-302), state the SocialLogin's
\* state: the set holding state.get('next'), empty for None
get_redirect_url(state) ==
    IF "next" \in DOMAIN state THEN {state["next"]} ELSE {}

\* request.session[key] = value
SessionSet(s, key, value) ==
    [k \in DOMAIN s \cup {key} |-> IF k = key THEN value ELSE s[k]]

\* request.session.pop(key): the mapping that is left
SessionPop(s, key) ==
    [k \in DOMAIN s \ {key} |-> s[k]]

StashCall(op, request, verifier) ==
    [op |-> op, request |-> request, verifier |-> verifier]

\* faulty variant: keeps an entry that is already stashed (setdefault)
stash_state_keep_first(request) ==
    /\ pendingCount < MaxPending
    /\ \E verifier \in Verifiers :
          LET state == state_from_request(request) IN
          /\ session' = IF SESSION_KEY \in DOMAIN session
                        THEN session
                        ELSE SessionSet(session, SESSION_KEY, <<state, verifier>>)
          /\ ret' = {verifier}
          /\ latest' = {[request |-> request, state |-> state, verifier |-> verifier]}
          /\ call' = StashCall("stash_state", request, "")
    /\ pendingCount' = pendingCount + 1
    /\ overwritten' = IF SESSION_KEY \in DOMAIN session
                      THEN overwritten \cup {session[SESSION_KEY][2]}
                      ELSE {}
    /\ burned' = {}
    /\ outcome' = "ok"
    /\ pre' = session

\* SocialLogin.stash_state (lines 315-320)
stash_state(request) ==
    /\ pendingCount < MaxPending
    /\ \E verifier \in Verifiers :
          LET state == state_from_request(request) IN
          /\ session' = SessionSet(session, SESSION_KEY, <<state, verifier>>)
          /\ ret' = {verifier}
          /\ latest' = {[request |-> request, state |-> state, verifier |-> verifier]}
          /\ call' = StashCall("stash_state", request, "")
    /\ pendingCount' = pendingCount + 1
    /\ overwritten' = IF SESSION_KEY \in DOMAIN session
                      THEN overwritten \cup {session[SESSION_KEY][2]}
                      ELSE {}
    /\ burned' = {}
    /\ outcome' = "ok"
    /\ pre' = session

\* faulty variant: session.pop(key, None) with no presence check: returns nothing
\* without raising when nothing is stashed
unstash_state_lenient ==
    /\ call' = StashCall("unstash_state", NoRequest, "")
    /\ pre' = session
    /\ UNCHANGED overwritten
    /\ IF SESSION_KEY \notin DOMAIN session
       THEN /\ outcome' = "ok"
            /\ ret' = {}
            /\ UNCHANGED <<session, pendingCount, latest, burned>>
       ELSE /\ session' = SessionPop(session, SESSION_KEY)
            /\ outcome' = "ok"
            /\ ret' = {session[SESSION_KEY][1]}
            /\ pendingCount' = 0
            /\ UNCHANGED <<latest, burned>>

\* SocialLogin.unstash_state (lines 322-327)
unstash_state ==
    /\ call' = StashCall("unstash_state", NoRequest, "")
    /\ pre' = session
    /\ UNCHANGED overwritten
    /\ IF SESSION_KEY \notin DOMAIN session
       THEN /\ outcome' = "PermissionDenied"
            /\ ret' = {}
            /\ UNCHANGED <<session, pendingCount, latest, burned>>
       ELSE /\ session' = SessionPop(session, SESSION_KEY)
            /\ outcome' = "ok"
            /\ ret' = {session[SESSION_KEY][1]}
            /\ pendingCount' = 0
            /\ UNCHANGED <<latest, burned>>

\* faulty variant: compares before popping, so a mismatch leaves the entry stashed
verify_and_unstash_state_peek(verifier) ==
    /\ call' = StashCall("verify_and_unstash_state", NoRequest, verifier)
    /\ pre' = session
    /\ UNCHANGED overwritten
    /\ IF SESSION_KEY \notin DOMAIN session
       THEN /\ outcome' = "PermissionDenied"
            /\ ret' = {}
            /\ UNCHANGED <<session, pendingCount, latest, burned>>
       ELSE LET state == session[SESSION_KEY][1]
                verifier2 == session[SESSION_KEY][2]
            IN  IF verifier # verifier2
                THEN /\ outcome' = "PermissionDenied"
                     /\ ret' = {}
                     /\ burned' = {verifier2}
                     /\ UNCHANGED <<session, pendingCount, latest>>
                ELSE /\ session' = SessionPop(session, SESSION_KEY)
                     /\ pendingCount' = 0
                     /\ outcome' = "ok"
                     /\ ret' = {state}
                     /\ UNCHANGED <<latest, burned>>

\* faulty variant: pops and returns the state whatever the verifier
verify_and_unstash_state_nocheck(verifier) ==
    /\ call' = StashCall("verify_and_unstash_state", NoRequest, verifier)
    /\ pre' = session
    /\ UNCHANGED overwritten
    /\ IF SESSION_KEY \notin DOMAIN session
       THEN /\ outcome' = "PermissionDenied"
            /\ ret' = {}
            /\ UNCHANGED <<session, pendingCount, latest, burned>>
       ELSE /\ session' = SessionPop(session, SESSION_KEY)
            /\ pendingCount' = 0
            /\ outcome' = "ok"
            /\ ret' = {session[SESSION_KEY][1]}
            /\ UNCHANGED <<latest, burned>>

\* SocialLogin.verify_and_unstash_state (lines 329-336)
verify_and_unstash_state(verifier) ==
    /\ call' = StashCall("verify_and_unstash_state", NoRequest, verifier)
    /\ pre' = session
    /\ UNCHANGED overwritten
    /\ IF SESSION_KEY \notin DOMAIN session
       THEN /\ outcome' = "PermissionDenied"
            /\ ret' = {}
            /\ UNCHANGED <<session, pendingCount, latest, burned>>
       ELSE LET state == session[SESSION_KEY][1]
                verifier2 == session[SESSION_KEY][2]
            IN  /\ session' = SessionPop(session, SESSION_KEY)
                /\ pendingCount' = 0
                /\ UNCHANGED latest
                /\ IF verifier # verifier2
                   THEN /\ outcome' = "PermissionDenied"
                        /\ ret' = {}
                        /\ burned' = {verifier2}
                   ELSE /\ outcome' = "ok"
                        /\ ret' = {state}
                        /\ UNCHANGED burned

(***************************************************************************)
(* Model instances.  pk = 0 stands for pk None (not saved).                *)
(***************************************************************************)
\* SocialAccount.provider / uid (lines 92, 111) and extra_data (line 117)
Providers == {"github"}

Uids == {"42", "7"}

Payloads == {"d1", "d2"}

\* SocialApp rows a token may point to (line 145)
Apps == {1, 2}

\* (token, token_secret, expires_at) of the tokens a provider hands over
\* (lines 148-158): "" is a blank secret, 0 is expires_at None
TokenPayloads ==
    { [token |-> "a1", token_secret |-> "r1", expires_at |-> 0],
      [token |-> "a2", token_secret |-> "", expires_at |-> 1],
      [token |-> "a2", token_secret |-> "r2", expires_at |-> 1] }

\* SocialToken.account: no account (None), the SocialLogin's own unsaved
\* account object, or the pk of a saved account
NoAccount == -1

CandidateAccount == 0

\* token=None (line 195)
NoToken ==
    [pk |-> 0, app |-> 0, account |-> NoAccount, token |-> "",
     token_secret |-> "", expires_at |-> 0]

\* user=None and account=None (line 195)
NoUser == [pk |-> 0, username |-> ""]

NoAccountObject ==
    [pk |-> 0, user |-> 0, provider |-> "", uid |-> "", extra_data |-> ""]

\* the user a provider prefills: not saved
NewUser == [pk |-> 0, username |-> "ann"]

\* EmailAddress instances a provider may retrieve
EmailAddresses ==
    { [email |-> "a@x", verified |-> TRUE, primary |-> TRUE],
      [email |-> "b@x", verified |-> FALSE, primary |-> FALSE] }

RECURSIVE SeqsUpTo(_, _)
SeqsUpTo(S, n) ==
    IF n = 0 THEN {<<>>}
    ELSE LET shorter == SeqsUpTo(S, n - 1)
         IN  shorter \cup { Append(q, x) : q \in shorter, x \in S }

\* the state mappings a SocialLogin may carry: {} (line 203) or what
\* state_from_request derived
States == {[k \in {} |-> ""]} \cup { state_from_request(r) : r \in Requests }

\* SocialLogin.__init__ (lines 195-203)
SocialLogin(user, account, token, email_addresses) ==
    [token |-> token, user |-> user, account |-> account,
     email_addresses |-> email_addresses, state |-> [k \in {} |-> ""]]

\* SocialLogin.is_existing (lines 260-265)
is_existing(s) == s.account.pk # 0

(***************************************************************************)
(* serialize / deserialize                                                 *)
(***************************************************************************)
AccountFields == <<"pk", "user", "provider", "uid", "extra_data">>

UserFields == <<"pk", "username">>

TokenFields == <<"pk", "app", "account", "token", "token_secret", "expires_at">>

EmailFields == <<"email", "verified", "primary">>

\* adapter.serialize_instance: the record as a list of (field, value)
\* pairs
serialize_instance(fields, instance) ==
    [i \in 1..Len(fields) |-> <<fields[i], instance[fields[i]]>>]

\* adapter.deserialize_instance(model, data): the instance of the model
\* with the values of the pairs
deserialize_instance(fields, data) ==
    [f \in { fields[i] : i \in 1..Len(fields) } |->
        data[CHOOSE i \in 1..Len(data) : data[i][1] = f][2]]

\* faulty variant: emits a token key also when there is no token
serialize_always_token(s) ==
    LET ret0 ==
          [k \in {"account", "user", "state", "email_addresses", "token"} |->
             CASE k = "account" -> serialize_instance(AccountFields, s.account)
               [] k = "user" -> serialize_instance(UserFields, s.user)
               [] k = "state" -> s.state
               [] k = "email_addresses" ->
                     [i \in 1..Len(s.email_addresses) |->
                         serialize_instance(EmailFields, s.email_addresses[i])]
               [] k = "token" -> serialize_instance(TokenFields, s.token)]
    IN  ret0

\* SocialLogin.serialize (lines 209-218)
serialize(s) ==
    LET keys == {"account", "user", "state", "email_addresses"}
                  \cup (IF s.token # NoToken THEN {"token"} ELSE {})
    IN  [k \in keys |->
           CASE k = "account" -> serialize_instance(AccountFields, s.account)
             [] k = "user" -> serialize_instance(UserFields, s.user)
             [] k = "state" -> s.state
             [] k = "email_addresses" ->
                   [i \in 1..Len(s.email_addresses) |->
                       serialize_instance(EmailFields, s.email_addresses[i])]
             [] k = "token" -> serialize_instance(TokenFields, s.token)]

\* the loop of lines 229-232 over data['email_addresses'][1..n]
RECURSIVE DeserializeEmails(_, _)
DeserializeEmails(eas, n) ==
    IF n = 0 THEN <<>>
    ELSE Append(DeserializeEmails(eas, n - 1),
                deserialize_instance(EmailFields, eas[n]))

\* faulty variant: email_addresses.insert(0, ...) instead of append
RECURSIVE DeserializeEmailsPrepend(_, _)
DeserializeEmailsPrepend(eas, n) ==
    IF n = 0 THEN <<>>
    ELSE <<deserialize_instance(EmailFields, eas[n])>>
            \o DeserializeEmailsPrepend(eas, n - 1)

deserialize_prepend(data) ==
    [token |-> IF "token" \in DOMAIN data
               THEN deserialize_instance(TokenFields, data["token"])
               ELSE NoToken,
     account |-> deserialize_instance(AccountFields, data["account"]),
     user |-> deserialize_instance(UserFields, data["user"]),
     email_addresses |->
        DeserializeEmailsPrepend(data["email_addresses"], Len(data["email_addresses"])),
     state |-> data["state"]]

\* SocialLogin.deserialize (lines 220-239)
deserialize(data) ==
    LET account == deserialize_instance(AccountFields, data["account"])
        user == deserialize_instance(UserFields, data["user"])
        token == IF "token" \in DOMAIN data
                 THEN deserialize_instance(TokenFields, data["token"])
                 ELSE NoToken
        email_addresses ==
            DeserializeEmails(data["email_addresses"], Len(data["email_addresses"]))
        ret0 == SocialLogin(NoUser, NoAccountObject, NoToken, <<>>)
    IN  [ret0 EXCEPT !.token = token, !.account = account, !.user = user,
                     !.email_addresses = email_addresses, !.state = data["state"]]

\* the SocialLogin instances handed to serialize: a new or a saved
\* account, a new or a saved user, no token or a token, the e-mail
\* addresses of the provider, and any state
CodecAccounts ==
    { [pk |-> pk, user |-> IF pk = 0 THEN 0 ELSE 1, provider |-> "github",
       uid |-> uid, extra_data |-> d] :
         pk \in {0, 1}, uid \in Uids, d \in Payloads }

CodecUsers == {NewUser, [pk |-> 1, username |-> "bob"]}

CodecTokens ==
    {NoToken}
      \cup { [pk |-> 0, app |-> 1, account |-> a, token |-> "a1",
              token_secret |-> r, expires_at |-> 0] :
               a \in {NoAccount, CandidateAccount}, r \in {"", "r1"} }

CodecSessions ==
    { [token |-> t, user |-> u, account |-> a, email_addresses |-> e, state |-> st] :
         t \in CodecTokens, u \in CodecUsers, a \in CodecAccounts,
         e \in SeqsUpTo(EmailAddresses, MaxEmails), st \in States }

CodecCall(op) == [op |-> op]

IdleStash ==
    /\ session = [k \in {} |-> ""]
    /\ latest = {}
    /\ overwritten = {}
    /\ pendingCount = 0
    /\ burned = {}

IdleDb ==
    /\ storeTokens = TRUE
    /\ users = {}
    /\ accounts = {}
    /\ tokens = {}
    /\ effects = <<>>
    /\ nSessions = 0

IdleLogin ==
    /\ IdleDb
    /\ sl = SocialLogin(NoUser, NoAccountObject, NoToken, <<>>)

IdleCodec ==
    /\ wire = {}
    /\ back = {}

IdleLists ==
    /\ defaultEmails = <<>>
    /\ logins = <<>>

IdleRace == procs = <<>>

InitCodec ==
    /\ sl \in CodecSessions
    /\ IdleCodec
    /\ IdleLists
    /\ IdleRace
    /\ IdleStash
    /\ IdleDb
    /\ call = CodecCall("none")
    /\ outcome = "ok"
    /\ ret = {}
    /\ pre = sl

Serialize ==
    /\ wire' = {serialize(sl)}
    /\ back' = {}
    /\ call' = CodecCall("serialize")
    /\ outcome' = "ok"
    /\ UNCHANGED <<stashVars, dbVars, sl, listVars, raceVars, ret, pre>>

Deserialize ==
    /\ wire # {}
    /\ back' = { deserialize(data) : data \in wire }
    /\ call' = CodecCall("deserialize")
    /\ outcome' = "ok"
    /\ UNCHANGED <<stashVars, dbVars, sl, listVars, raceVars, wire, ret, pre>>

NextCodec == Serialize \/ Deserialize

SpecCodec == InitCodec /\ [][NextCodec]_vars

\* C5: the mapping serialize returns has the keys account, user, state and
\* email_addresses, and the key token exactly when the SocialLogin has a
\* token; deserialize of that mapping gives a SocialLogin with the same
\* account, user, e-mail addresses (same entries, same order) and state,
\* and with a token exactly when the original has one.
C5_SerializeRoundTrip ==
    /\ \A data \in wire :
          /\ {"account", "user", "state", "email_addresses"} \subseteq DOMAIN data
          /\ DOMAIN data \subseteq {"account", "user", "state", "email_addresses", "token"}
          /\ "token" \in DOMAIN data <=> sl.token # NoToken
    /\ \A x \in back :
          /\ x.account = sl.account
          /\ x.user = sl.user
          /\ x.email_addresses = sl.email_addresses
          /\ x.state = sl.state
          /\ x.token = NoToken <=> sl.token = NoToken

\* C5 witness: a SocialLogin with a token, two different e-mail addresses
\* and a redirect target in its state came back from deserialize.
C5_Witness ==
    /\ back # {}
    /\ sl.token # NoToken
    /\ Len(sl.email_addresses) = 2
    /\ sl.email_addresses[1] # sl.email_addresses[2]
    /\ "next" \in DOMAIN sl.state

\* a SocialLogin without a token was serialized: no token key
C5_NoTokenKey ==
    /\ \E data \in wire : "token" \notin DOMAIN data
    /\ back # {}
    /\ sl.token = NoToken

(***************************************************************************)
(* The handshake object against the tables: lookup, save, connect          *)
(***************************************************************************)
\* the pk the database gives the next row of a table (rows are never
\* deleted here)
NextPk(table) == Cardinality(table) + 1

\* the row of a table with a given pk replaced or added (Model.save)
SaveRow(table, row) == { r \in table : r.pk # row.pk } \cup {row}

\* SocialAccount.objects.get(provider=..., uid=...): the matching rows
GetAccounts(table, provider, uid) ==
    { a \in table : a.provider = provider /\ a.uid = uid }

\* SocialToken.objects.get(account=..., app=...): the matching rows
GetTokens(table, account_pk, app) ==
    { t \in table : t.account = account_pk /\ t.app = app }

\* one entry of the effects history
Effect(what, pk, emails) == [what |-> what, pk |-> pk, emails |-> emails]

LoginCall(op, user) == [op |-> op, user |-> user]

Snapshot ==
    [sl |-> sl, users |-> users, accounts |-> accounts, tokens |-> tokens]

\* the tokens a provider hands over: not saved, bound to no account or to
\* the SocialLogin's own account (the assertion of lines 197-198)
CandidateTokens ==
    { [pk |-> 0, app |-> app, account |-> a, token |-> p.token,
       token_secret |-> p.token_secret, expires_at |-> p.expires_at] :
         app \in Apps, a \in {NoAccount, CandidateAccount}, p \in TokenPayloads }

CandidateAccounts ==
    { [pk |-> 0, user |-> 0, provider |-> p, uid |-> uid, extra_data |-> d] :
         p \in Providers, uid \in Uids, d \in Payloads }

\* the e-mail addresses the provider retrieved (lines 191-192)
CandidateEmails == { <<[email |-> "a@x", verified |-> TRUE, primary |-> TRUE]>> }

\* a provider completes a handshake and constructs the SocialLogin
\* (lines 195-203)
NewSession ==
    /\ nSessions < MaxSessions
    /\ \E account \in CandidateAccounts,
          token \in CandidateTokens \cup {NoToken},
          email_addresses \in CandidateEmails :
          sl' = SocialLogin(NewUser, account, token, email_addresses)
    /\ nSessions' = nSessions + 1
    /\ call' = LoginCall("SocialLogin", NoUser)
    /\ outcome' = "ok"
    /\ effects' = <<>>
    \* a constructor starts from no instance: the one of the handshake
    \* before is dropped
    /\ pre' = [Snapshot EXCEPT !.sl = SocialLogin(NoUser, NoAccountObject, NoToken, <<>>)]
    /\ UNCHANGED <<storeTokens, users, accounts, tokens, stashVars, codecVars,
                   listVars, raceVars, ret>>

\* faulty variant: the setting is not consulted
StoringTokensAlways(s) == s.token # NoToken

\* `app_settings.STORE_TOKENS and self.token` (lines 251, 281)
StoringTokens(s) == storeTokens /\ s.token # NoToken

\* faulty variant: the candidate token is saved without being bound to
\* the stored account
BindCandidateTokenUnbound(tok, a, table) ==
    [tok EXCEPT !.pk = NextPk(table)]

\* lines 295-296: the candidate token is bound to the stored account a
\* and saved as a new row of the table
BindCandidateToken(tok, a, table) ==
    [tok EXCEPT !.account = a.pk, !.pk = NextPk(table)]

\* faulty variant: the secondary value is overwritten even by an empty one
UpdateStoredTokenAlways(t, cand) ==
    [t EXCEPT !.token = cand.token,
              !.token_secret = cand.token_secret,
              !.expires_at = cand.expires_at]

\* lines 286-291: the stored token t takes the candidate's values
UpdateStoredToken(t, cand) ==
    [t EXCEPT !.token = cand.token,
              !.token_secret = IF cand.token_secret # ""
                               THEN cand.token_secret
                               ELSE t.token_secret,
              !.expires_at = cand.expires_at]

\* faulty variant: the stored account also takes the candidate's owner
\* when the candidate has one
UpdateStoredAccountTakeOwner(a, cand) ==
    [a EXCEPT !.extra_data = cand.extra_data,
              !.user = IF cand.user # 0 THEN cand.user ELSE a.user]

\* faulty variant: the stored account keeps its old extra_data
UpdateStoredAccountStale(a, cand) == a

\* line 276: the stored account a takes the candidate's extra_data
UpdateStoredAccount(a, cand) == [a EXCEPT !.extra_data = cand.extra_data]

\* the body of lookup after a match (lines 276-296), a the stored account
LookupMatch(a0) ==
    LET a == UpdateStoredAccount(a0, sl.account)
        owner == CHOOSE u \in users : u.pk = a.user
        accounts1 == SaveRow(accounts, a)
        saveAccount == Effect("account.save", a.pk, <<>>)
        getToken == Effect("token.get", 0, <<>>)
    IN  /\ accounts' = accounts1
        /\ UNCHANGED users
        /\ IF StoringTokens(sl)
           THEN IF sl.token.pk # 0
                THEN /\ outcome' = "AssertionError"
                     /\ sl' = [sl EXCEPT !.account = a, !.user = owner]
                     /\ effects' = <<saveAccount>>
                     /\ UNCHANGED tokens
                ELSE LET found == GetTokens(tokens, a.pk, sl.token.app) IN
                     IF Cardinality(found) > 1
                     THEN /\ outcome' = "MultipleObjectsReturned"
                          /\ sl' = [sl EXCEPT !.account = a, !.user = owner]
                          /\ effects' = <<saveAccount, getToken>>
                          /\ UNCHANGED tokens
                     ELSE IF found # {}
                     THEN LET t == UpdateStoredToken(CHOOSE x \in found : TRUE, sl.token)
                          IN  /\ tokens' = SaveRow(tokens, t)
                              /\ sl' = [sl EXCEPT !.account = a, !.user = owner,
                                                  !.token = t]
                              /\ effects' = <<saveAccount, getToken,
                                              Effect("token.save", t.pk, <<>>)>>
                              /\ outcome' = "ok"
                     ELSE LET t == BindCandidateToken(sl.token, a, tokens)
                          IN  /\ tokens' = SaveRow(tokens, t)
                              /\ sl' = [sl EXCEPT !.account = a, !.user = owner,
                                                  !.token = t]
                              /\ effects' = <<saveAccount, getToken,
                                              Effect("token.save", t.pk, <<>>)>>
                              /\ outcome' = "ok"
           ELSE /\ outcome' = "ok"
                /\ sl' = [sl EXCEPT !.account = a, !.user = owner]
                /\ effects' = <<saveAccount>>
                /\ UNCHANGED tokens

\* faulty variant: get_or_create instead of get: a miss creates the account
lookup_get_or_create ==
    LET found == GetAccounts(accounts, sl.account.provider, sl.account.uid) IN
    IF is_existing(sl)
    THEN /\ outcome' = "AssertionError"
         /\ effects' = <<>>
         /\ UNCHANGED <<sl, users, accounts, tokens>>
    ELSE IF found = {}
    THEN LET a == [sl.account EXCEPT !.pk = NextPk(accounts)] IN
         /\ outcome' = "ok"
         /\ accounts' = SaveRow(accounts, a)
         /\ sl' = [sl EXCEPT !.account = a]
         /\ effects' = <<Effect("account.save", a.pk, <<>>)>>
         /\ UNCHANGED <<users, tokens>>
    ELSE LookupMatch(CHOOSE a \in found : TRUE)

\* SocialLogin.lookup (lines 267-298)
lookup ==
    LET found == GetAccounts(accounts, sl.account.provider, sl.account.uid) IN
    IF is_existing(sl)
    THEN /\ outcome' = "AssertionError"
         /\ effects' = <<>>
         /\ UNCHANGED <<sl, users, accounts, tokens>>
    ELSE IF found = {}
    THEN /\ outcome' = "ok"
         /\ effects' = <<>>
         /\ UNCHANGED <<sl, users, accounts, tokens>>
    ELSE IF Cardinality(found) > 1
    THEN /\ outcome' = "MultipleObjectsReturned"
         /\ effects' = <<>>
         /\ UNCHANGED <<sl, users, accounts, tokens>>
    ELSE LookupMatch(CHOOSE a \in found : TRUE)

\* faulty variant: no assertion, an existing SocialLogin is saved again
save_unchecked(s, is_connect) ==
    LET upk == IF s.user.pk = 0 THEN NextPk(users) ELSE s.user.pk
        user == [s.user EXCEPT !.pk = upk]
        apk == IF s.account.pk = 0 THEN NextPk(accounts) ELSE s.account.pk
        account == [s.account EXCEPT !.user = upk, !.pk = apk]
    IN  /\ users' = SaveRow(users, user)
        /\ accounts' = SaveRow(accounts, account)
        /\ UNCHANGED tokens
        /\ sl' = [s EXCEPT !.user = user, !.account = account]
        /\ effects' = <<Effect("user.save", upk, <<>>),
                        Effect("account.save", apk, <<>>)>>
        /\ outcome' = "ok"

\* faulty variant: the account is bound to the user but never saved
save_no_account(s, is_connect) ==
    IF is_existing(s)
    THEN /\ outcome' = "AssertionError"
         /\ sl' = s
         /\ effects' = <<>>
         /\ UNCHANGED <<users, accounts, tokens>>
    ELSE LET upk == IF s.user.pk = 0 THEN NextPk(users) ELSE s.user.pk
             user == [s.user EXCEPT !.pk = upk]
         IN  /\ users' = SaveRow(users, user)
             /\ UNCHANGED <<accounts, tokens>>
             /\ sl' = [s EXCEPT !.user = user, !.account.user = upk]
             /\ effects' = <<Effect("user.save", upk, <<>>)>>
             /\ outcome' = "ok"

\* faulty variant: the account is saved before the user, so its row is
\* written while the user has no pk yet
save_account_first(s, is_connect) ==
    IF is_existing(s)
    THEN /\ outcome' = "AssertionError"
         /\ sl' = s
         /\ effects' = <<>>
         /\ UNCHANGED <<users, accounts, tokens>>
    ELSE LET clash == GetAccounts(accounts, s.account.provider, s.account.uid) # {}
             apk == NextPk(accounts)
             account == [s.account EXCEPT !.pk = apk]
             upk == IF s.user.pk = 0 THEN NextPk(users) ELSE s.user.pk
             user == [s.user EXCEPT !.pk = upk]
         IN  IF clash
             THEN /\ outcome' = "IntegrityError"
                  /\ sl' = s
                  /\ effects' = <<>>
                  /\ UNCHANGED <<users, accounts, tokens>>
             ELSE /\ accounts' = SaveRow(accounts, account)
                  /\ users' = SaveRow(users, user)
                  /\ UNCHANGED tokens
                  /\ sl' = [s EXCEPT !.user = user, !.account = account]
                  /\ effects' = <<Effect("account.save", apk, <<>>),
                                  Effect("user.save", upk, <<>>)>>
                  /\ outcome' = "ok"

\* SocialLogin.save (lines 241-258), s the SocialLogin at entry
save(s, is_connect) ==
    IF is_existing(s)
    THEN /\ outcome' = "AssertionError"
         /\ sl' = s
         /\ effects' = <<>>
         /\ UNCHANGED <<users, accounts, tokens>>
    ELSE LET upk == IF s.user.pk = 0 THEN NextPk(users) ELSE s.user.pk
             user == [s.user EXCEPT !.pk = upk]
             saveUser == Effect("user.save", upk, <<>>)
             account0 == [s.account EXCEPT !.user = upk]
             clash == GetAccounts(accounts, account0.provider, account0.uid) # {}
         IN  /\ users' = SaveRow(users, user)
             /\ IF clash
                THEN \* the INSERT breaks unique_together (line 120)
                     /\ outcome' = "IntegrityError"
                     /\ sl' = [s EXCEPT !.user = user, !.account = account0]
                     /\ effects' = <<saveUser>>
                     /\ UNCHANGED <<accounts, tokens>>
                ELSE LET apk == NextPk(accounts)
                         account == [account0 EXCEPT !.pk = apk]
                         saveAccount == Effect("account.save", apk, <<>>)
                         storing == StoringTokens(s)
                         tpk == IF s.token.pk = 0 THEN NextPk(tokens) ELSE s.token.pk
                         token ==
                            IF storing
                            THEN [s.token EXCEPT !.account = apk, !.pk = tpk]
                            ELSE IF s.token # NoToken /\ s.token.account = CandidateAccount
                            THEN \* the token points to the object that just got its pk
                                 [s.token EXCEPT !.account = apk]
                            ELSE s.token
                         saveToken == IF storing
                                      THEN <<Effect("token.save", tpk, <<>>)>>
                                      ELSE <<>>
                         emails == IF is_connect
                                   THEN <<>>
                                   ELSE <<Effect("setup_user_email", upk, s.email_addresses)>>
                     IN  /\ accounts' = SaveRow(accounts, account)
                         /\ tokens' = IF storing THEN SaveRow(tokens, token) ELSE tokens
                         /\ sl' = [s EXCEPT !.user = user, !.account = account,
                                            !.token = token]
                         /\ effects' = <<saveUser, saveAccount>> \o saveToken \o emails
                         /\ outcome' = "ok"

\* faulty variant: connect runs the save of a signup, e-mail setup included
connect_with_emails(user) == save([sl EXCEPT !.user = user], FALSE)

\* SocialLogin.connect (lines 205-207)
connect(user) == save([sl EXCEPT !.user = user], TRUE)

\* app_settings.STORE_TOKENS is either; one local user exists (the one
\* connect links accounts to); no social account or token is stored yet;
\* a first handshake has not completed
Init ==
    /\ storeTokens \in BOOLEAN
    /\ users = {[pk |-> 1, username |-> "bob"]}
    /\ accounts = {}
    /\ tokens = {}
    /\ sl = SocialLogin(NoUser, NoAccountObject, NoToken, <<>>)
    /\ effects = <<>>
    /\ nSessions = 0
    /\ call = LoginCall("none", NoUser)
    /\ outcome = "ok"
    /\ ret = {}
    /\ pre = Snapshot
    /\ IdleStash
    /\ IdleCodec
    /\ IdleLists
    /\ IdleRace

Lookup ==
    /\ nSessions > 0
    /\ lookup
    /\ call' = LoginCall("lookup", NoUser)
    /\ pre' = Snapshot
    /\ UNCHANGED <<storeTokens, nSessions, stashVars, codecVars, listVars,
                   raceVars, ret>>

Save ==
    /\ nSessions > 0
    /\ save(sl, FALSE)
    /\ call' = LoginCall("save", NoUser)
    /\ pre' = Snapshot
    /\ UNCHANGED <<storeTokens, nSessions, stashVars, codecVars, listVars,
                   raceVars, ret>>

\* the users connect is called for: the local account that existed before
\* any handshake, logged in
ConnectUsers == { u \in users : u.pk = 1 }

Connect ==
    /\ nSessions > 0
    /\ \E user \in ConnectUsers :
          /\ connect(user)
          /\ call' = LoginCall("connect", user)
    /\ pre' = Snapshot
    /\ UNCHANGED <<storeTokens, nSessions, stashVars, codecVars, listVars,
                   raceVars, ret>>

Next == NewSession \/ Lookup \/ Save \/ Connect

Spec == Init /\ [][Next]_vars

\* a request's session store before the handshake starts: empty, or
\* holding what the rest of the site put there under its own key
InitStash ==
    /\ session \in {[k \in {} |-> ""], [k \in {OtherKey} |-> "1"]}
    /\ latest = {}
    /\ pendingCount = 0
    /\ burned = {}
    /\ overwritten = {}
    /\ call = StashCall("none", NoRequest, "")
    /\ outcome = "ok"
    /\ ret = {}
    /\ pre = session
    /\ IdleLogin
    /\ IdleCodec
    /\ IdleLists
    /\ IdleRace

StashRequest ==
    /\ \E request \in Requests : stash_state(request)
    /\ UNCHANGED <<dbVars, sl, codecVars, listVars, raceVars>>

Unstash ==
    /\ unstash_state
    /\ UNCHANGED <<dbVars, sl, codecVars, listVars, raceVars>>

VerifyAndUnstash ==
    /\ \E verifier \in SuppliedVerifiers : verify_and_unstash_state(verifier)
    /\ UNCHANGED <<dbVars, sl, codecVars, listVars, raceVars>>

NextStash == StashRequest \/ Unstash \/ VerifyAndUnstash

SpecStash == InitStash /\ [][NextStash]_vars

(***************************************************************************)
(* The e-mail lists of SocialLogin instances (SpecLists).  Python          *)
(* evaluates the default `email_addresses=[]` of __init__ once, when the   *)
(* function is defined: defaultEmails is that one list object.             *)
(***************************************************************************)
\* one SocialLogin instance, as far as its email_addresses goes: defaulted
\* if it was constructed without the argument, and then holds the default
\* list object, or else a list of its own; history: the list it saw when
\* constructed, and the addresses added through it, in order; by is the
\* call that returned it
Login(by, defaulted, own, atBirth) ==
    [by |-> by, defaulted |-> defaulted, own |-> own, atBirth |-> atBirth,
     added |-> <<>>]

\* self.email_addresses of the instance l (line 202)
email_addresses(l) == IF l.defaulted THEN defaultEmails ELSE l.own

\* the lists a caller hands to the constructor
GivenEmails == SeqsUpTo(EmailAddresses, 1)

\* SocialLogin(...) (lines 195-203), given the email_addresses argument:
\* {} when the caller leaves it out, {list} otherwise
Construct(given) ==
    /\ Len(logins) < MaxSessions
    /\ IF given = {}
       THEN logins' = Append(logins, Login("SocialLogin", TRUE, <<>>, defaultEmails))
       ELSE \E list \in given :
               logins' = Append(logins, Login("SocialLogin", FALSE, list, list))
    /\ UNCHANGED defaultEmails

\* SocialLogin.deserialize (lines 220-239): cls() takes the default list,
\* then the instance is given the list built from the data
DeserializeLogin(list) ==
    /\ Len(logins) < MaxSessions
    /\ logins' = Append(logins, Login("deserialize", FALSE, list, list))
    /\ UNCHANGED defaultEmails

\* sociallogin.email_addresses.append(e) by whoever holds instance i
AppendEmail(i, e) ==
    /\ Len(email_addresses(logins[i])) < MaxEmails
    /\ IF logins[i].defaulted
       THEN /\ defaultEmails' = Append(defaultEmails, e)
            /\ logins' = [logins EXCEPT ![i].added = Append(@, e)]
       ELSE /\ defaultEmails' = defaultEmails
            /\ logins' = [logins EXCEPT ![i].own = Append(@, e),
                                        ![i].added = Append(@, e)]

InitLists ==
    /\ IdleLists
    /\ IdleStash
    /\ IdleLogin
    /\ IdleCodec
    /\ IdleRace
    /\ call = LoginCall("none", NoUser)
    /\ outcome = "ok"
    /\ ret = {}
    /\ pre = {}

ListsFrame ==
    UNCHANGED <<stashVars, dbVars, sl, codecVars, raceVars, call, outcome, ret, pre>>

ConstructDefault ==
    /\ Construct({})
    /\ ListsFrame

ConstructWithEmails ==
    /\ \E list \in GivenEmails : Construct({list})
    /\ ListsFrame

ConstructByDeserialize ==
    /\ \E list \in GivenEmails : DeserializeLogin(list)
    /\ ListsFrame

AddEmail ==
    /\ \E i \in 1..Len(logins), e \in EmailAddresses : AppendEmail(i, e)
    /\ ListsFrame

NextLists ==
    ConstructDefault \/ ConstructWithEmails \/ ConstructByDeserialize \/ AddEmail

SpecLists == InitLists /\ [][NextLists]_vars

\* C13: every SocialLogin constructed without email_addresses started with
\* an empty list and holds exactly the addresses added through it: what is
\* added through another instance does not show in it.
C13_FreshDefaultList ==
    \A i \in 1..Len(logins) :
        logins[i].defaulted =>
            /\ logins[i].atBirth = <<>>
            /\ email_addresses(logins[i]) = logins[i].added

\* C13: what the code reaches against it: two instances constructed
\* without the argument, an address added through the first only, and the
\* second holds it too.
C13_SharedDefaultList ==
    /\ Len(logins) >= 2
    /\ logins[1].defaulted
    /\ logins[2].defaulted
    /\ logins[1].added # <<>>
    /\ logins[2].added = <<>>
    /\ email_addresses(logins[2]) = logins[1].added

(***************************************************************************)
(* Concurrent handshakes (SpecRace): each request runs lookup and, after   *)
(* a miss, save, against the same tables.  Every query and every           *)
(* Model.save is one step, and the steps of the requests interleave.  The  *)
(* database refuses an INSERT that breaks a unique_together of Meta.       *)
(***************************************************************************)
Requesters == 1..MaxRequests

\* faulty variant: no unique constraint on (provider, uid)
AccountInsertUnchecked(table, row) == FALSE

\* unique_together = ('provider', 'uid') (lines 119-120): the INSERT of
\* row into the table is refused
AccountInsertClash(table, row) ==
    GetAccounts(table, row.provider, row.uid) # {}

\* faulty variant: no unique constraint on (app, account)
TokenInsertUnchecked(table, row) == FALSE

\* unique_together = ('app', 'account') (lines 160-161): the INSERT of
\* row into the table is refused
TokenInsertClash(table, row) ==
    GetTokens(table, row.account, row.app) # {}

\* what the provider handed to a request: an account and maybe a token
RaceTokens ==
    {NoToken} \cup
    { [pk |-> 0, app |-> app, account |-> NoAccount, token |-> "a2",
       token_secret |-> "", expires_at |-> 1] : app \in Apps }

RaceSessions ==
    { SocialLogin(NewUser,
                  [pk |-> 0, user |-> 0, provider |-> "github", uid |-> uid,
                   extra_data |-> "d2"],
                  token, <<>>) : uid \in Uids, token \in RaceTokens }

\* a request's handshake: pc is the step it is to take next (or, once
\* outcome is an exception, the step that raised), sl its SocialLogin,
\* found the token row its lookup fetched
Proc(s) == [pc |-> "lookup_get_account", sl |-> s, found |-> {}, outcome |-> "ok"]

\* an account linked before the requests arrive
StoredAccount ==
    [pk |-> 1, user |-> 1, provider |-> "github", uid |-> "42",
     extra_data |-> "d1"]

At(p, step) == procs[p].pc = step /\ procs[p].outcome = "ok"

Goto(p, step) == procs' = [procs EXCEPT ![p].pc = step]

Raise(p, exception) == procs' = [procs EXCEPT ![p].outcome = exception]

\* lookup, lines 268-278: the account query and, on a match, the
\* assignments before a.save()
lookup_get_account(p) ==
    LET me == procs[p]
        found == GetAccounts(accounts, me.sl.account.provider, me.sl.account.uid)
    IN  /\ At(p, "lookup_get_account")
        /\ IF found = {}
           THEN \* lines 297-298: lookup returns, the signup saves
                Goto(p, "save_user")
           ELSE LET a == UpdateStoredAccount(CHOOSE x \in found : TRUE, me.sl.account)
                    owner == CHOOSE u \in users : u.pk = a.user
                IN  procs' = [procs EXCEPT ![p].pc = "lookup_save_account",
                                           ![p].sl.account = a,
                                           ![p].sl.user = owner]
        /\ UNCHANGED <<users, accounts, tokens>>

\* lookup, line 279: a.save()
lookup_save_account(p) ==
    LET me == procs[p] IN
    /\ At(p, "lookup_save_account")
    /\ accounts' = SaveRow(accounts, me.sl.account)
    /\ Goto(p, IF StoringTokens(me.sl) THEN "lookup_get_token" ELSE "done")
    /\ UNCHANGED <<users, tokens>>

\* lookup, lines 282-286 and 294-295: the token query
lookup_get_token(p) ==
    LET me == procs[p]
        found == GetTokens(tokens, me.sl.account.pk, me.sl.token.app)
    IN  /\ At(p, "lookup_get_token")
        /\ IF found # {}
           THEN procs' = [procs EXCEPT
                    ![p].pc = "lookup_update_token",
                    ![p].found = {UpdateStoredToken(CHOOSE x \in found : TRUE,
                                                    me.sl.token)}]
           ELSE procs' = [procs EXCEPT
                    ![p].pc = "lookup_insert_token",
                    ![p].sl.token.account = me.sl.account.pk]
        /\ UNCHANGED <<users, accounts, tokens>>

\* lookup, lines 292-293: t.save() and self.token = t
lookup_update_token(p) ==
    LET me == procs[p] IN
    /\ At(p, "lookup_update_token")
    /\ \E t \in me.found :
          /\ tokens' = SaveRow(tokens, t)
          /\ procs' = [procs EXCEPT ![p].pc = "done", ![p].sl.token = t]
    /\ UNCHANGED <<users, accounts>>

\* lookup, line 296: self.token.save(), an INSERT
lookup_insert_token(p) ==
    LET me == procs[p] IN
    /\ At(p, "lookup_insert_token")
    /\ IF TokenInsertClash(tokens, me.sl.token)
       THEN /\ Raise(p, "IntegrityError")
            /\ UNCHANGED tokens
       ELSE LET t == [me.sl.token EXCEPT !.pk = NextPk(tokens)]
            IN  /\ tokens' = SaveRow(tokens, t)
                /\ procs' = [procs EXCEPT ![p].pc = "done", ![p].sl.token = t]
    /\ UNCHANGED <<users, accounts>>

\* save, lines 246-248: user.save()
save_user(p) ==
    LET me == procs[p]
        user == [me.sl.user EXCEPT !.pk = NextPk(users)]
    IN  /\ At(p, "save_user")
        /\ users' = SaveRow(users, user)
        /\ procs' = [procs EXCEPT ![p].pc = "save_account", ![p].sl.user = user]
        /\ UNCHANGED <<accounts, tokens>>

\* save, lines 249-250: account.user = user; account.save(), an INSERT
save_account(p) ==
    LET me == procs[p]
        account0 == [me.sl.account EXCEPT !.user = me.sl.user.pk]
    IN  /\ At(p, "save_account")
        /\ IF AccountInsertClash(accounts, account0)
           THEN /\ procs' = [procs EXCEPT ![p].outcome = "IntegrityError",
                                          ![p].sl.account = account0]
                /\ UNCHANGED accounts
           ELSE LET account == [account0 EXCEPT !.pk = NextPk(accounts)]
                IN  /\ accounts' = SaveRow(accounts, account)
                    /\ procs' = [procs EXCEPT
                          ![p].pc = IF StoringTokens(me.sl)
                                    THEN "save_token" ELSE "save_emails",
                          ![p].sl.account = account]
        /\ UNCHANGED <<users, tokens>>

\* save, lines 251-253: token.account = account; token.save(), an INSERT
save_token(p) ==
    LET me == procs[p]
        token0 == [me.sl.token EXCEPT !.account = me.sl.account.pk]
    IN  /\ At(p, "save_token")
        /\ IF TokenInsertClash(tokens, token0)
           THEN /\ Raise(p, "IntegrityError")
                /\ UNCHANGED tokens
           ELSE LET t == [token0 EXCEPT !.pk = NextPk(tokens)]
                IN  /\ tokens' = SaveRow(tokens, t)
                    /\ procs' = [procs EXCEPT ![p].pc = "save_emails",
                                              ![p].sl.token = t]
        /\ UNCHANGED <<users, accounts>>

\* save, lines 257-258: setup_user_email, and save returns
save_emails(p) ==
    /\ At(p, "save_emails")
    /\ Goto(p, "done")
    /\ UNCHANGED <<users, accounts, tokens>>

\* the requests arrive together, each with what its provider handed over;
\* one local user exists, and maybe an account linked earlier
InitRace ==
    /\ storeTokens \in BOOLEAN
    /\ users = {[pk |-> 1, username |-> "bob"]}
    /\ accounts \in {{}, {StoredAccount}}
    /\ tokens = {}
    /\ procs \in [Requesters -> { Proc(s) : s \in RaceSessions }]
    /\ effects = <<>>
    /\ nSessions = 0
    /\ sl = SocialLogin(NoUser, NoAccountObject, NoToken, <<>>)
    /\ IdleStash
    /\ IdleCodec
    /\ IdleLists
    /\ call = LoginCall("none", NoUser)
    /\ outcome = "ok"
    /\ ret = {}
    /\ pre = {}

RaceFrame ==
    UNCHANGED <<storeTokens, effects, nSessions, sl, stashVars, codecVars,
                listVars, call, outcome, ret, pre>>

LookupGetAccount == (\E p \in Requesters : lookup_get_account(p)) /\ RaceFrame

LookupSaveAccount == (\E p \in Requesters : lookup_save_account(p)) /\ RaceFrame

LookupGetToken == (\E p \in Requesters : lookup_get_token(p)) /\ RaceFrame

LookupUpdateToken == (\E p \in Requesters : lookup_update_token(p)) /\ RaceFrame

LookupInsertToken == (\E p \in Requesters : lookup_insert_token(p)) /\ RaceFrame

SaveUser == (\E p \in Requesters : save_user(p)) /\ RaceFrame

SaveAccount == (\E p \in Requesters : save_account(p)) /\ RaceFrame

SaveToken == (\E p \in Requesters : save_token(p)) /\ RaceFrame

SaveEmails == (\E p \in Requesters : save_emails(p)) /\ RaceFrame

NextRace ==
    \/ LookupGetAccount
    \/ LookupSaveAccount
    \/ LookupGetToken
    \/ LookupUpdateToken
    \/ LookupInsertToken
    \/ SaveUser
    \/ SaveAccount
    \/ SaveToken
    \/ SaveEmails

SpecRace == InitRace /\ [][NextRace]_vars

\* C11: however the steps of concurrent handshakes for the same new
\* (provider, uid) interleave, each running lookup, which misses, and then
\* save, the account table never holds two rows with the same (provider,
\* uid).
C11_OneAccountPerUid ==
    \A a, b \in accounts :
        (a.provider = b.provider /\ a.uid = b.uid) => a = b

\* C11 witness: two requests for the same new uid both missed in lookup
\* and both saved a user; one stored the account, the other's INSERT was
\* refused.
C11_Witness ==
    \E p, q \in Requesters :
        /\ p # q
        /\ procs[p].sl.account.uid = procs[q].sl.account.uid
        /\ procs[p].pc = "done"
        /\ procs[p].sl.account \in accounts
        /\ procs[p].sl.account.user = procs[p].sl.user.pk
        /\ procs[p].sl.user.username = "ann"
        /\ procs[q].pc = "save_account"
        /\ procs[q].outcome = "IntegrityError"
        /\ procs[q].sl.user \in users
        /\ procs[q].sl.user # procs[p].sl.user

\* C17: however the steps of concurrent lookups interleave that match the
\* same stored account, each with a new token of the same app while none
\* is stored, the token table never holds two rows with the same (app,
\* account).
C17_OneTokenPerAppAccount ==
    \A t, u \in tokens :
        (t.app = u.app /\ t.account = u.account) => t = u

\* C17 witness: two lookups matched the same stored account and both
\* found no token of the app; one stored its token, the other's INSERT
\* was refused.
C17_Witness ==
    \E p, q \in Requesters :
        /\ p # q
        /\ procs[p].sl.account.pk = procs[q].sl.account.pk
        /\ procs[p].sl.account.pk = StoredAccount.pk
        /\ procs[p].sl.token.app = procs[q].sl.token.app
        /\ procs[p].pc = "done"
        /\ procs[p].sl.token \in tokens
        /\ procs[q].pc = "lookup_insert_token"
        /\ procs[q].outcome = "IntegrityError"
        /\ procs[q].sl.token.pk = 0
        /\ procs[q].sl.token.account = StoredAccount.pk

(***************************************************************************)
(* Claims about lookup and save (checked under Spec)                       *)
(***************************************************************************)
\* the stored accounts the last call's SocialLogin matched when the call
\* started
PreFound ==
    GetAccounts(pre.accounts, pre.sl.account.provider, pre.sl.account.uid)

LookupMissed ==
    call.op = "lookup" /\ ~is_existing(pre.sl) /\ PreFound = {}

LookupMatched ==
    call.op = "lookup" /\ ~is_existing(pre.sl) /\ PreFound # {}

TablesUnchanged ==
    /\ users = pre.users
    /\ accounts = pre.accounts
    /\ tokens = pre.tokens
    /\ effects = <<>>

\* C6: lookup on a SocialLogin that is not existing and whose (provider,
\* uid) matches no stored account raises nothing, leaves is_existing false
\* and the account, user and token as they were, and writes nothing to the
\* user, account and token tables.
C6_LookupMissChangesNothing ==
    LookupMissed =>
        /\ outcome = "ok"
        /\ ~is_existing(sl)
        /\ sl = pre.sl
        /\ TablesUnchanged

\* C6 witness: a lookup missed although another account is stored, with
\* a token in hand and token persistence on.
C6_Witness ==
    /\ LookupMissed
    /\ pre.accounts # {}
    /\ storeTokens
    /\ sl.token # NoToken
    /\ outcome = "ok"

\* C7: lookup on a SocialLogin that is not existing and whose (provider,
\* uid) matches a stored account makes that stored account, with its
\* extra_data replaced by the candidate's, the SocialLogin's account, saves
\* it (no other account row changes), makes is_existing true, and makes the
\* stored account's owner the SocialLogin's user.
C7_LookupMatchAdoptsStored ==
    LookupMatched =>
        \A a0 \in PreFound :
            /\ outcome = "ok"
            /\ sl.account = [a0 EXCEPT !.extra_data = pre.sl.account.extra_data]
            /\ accounts = (pre.accounts \ {a0}) \cup {sl.account}
            /\ Len(effects) >= 1
            /\ effects[1] = Effect("account.save", a0.pk, <<>>)
            /\ is_existing(sl)
            /\ sl.user.pk = a0.user
            /\ sl.user \in users
            /\ users = pre.users

\* C7 witness: the stored account had another payload and belongs to bob,
\* while the provider had prefilled the unsaved user ann.
C7_Witness ==
    /\ LookupMatched
    /\ \E a0 \in PreFound : a0.extra_data # sl.account.extra_data
    /\ pre.sl.user.username = "ann"
    /\ sl.user.username = "bob"

\* the stored tokens of the matched account and the candidate token's app
PreFoundTokens ==
    UNION { GetTokens(pre.tokens, a0.pk, pre.sl.token.app) : a0 \in PreFound }

TokenRefreshed ==
    /\ LookupMatched
    /\ storeTokens
    /\ pre.sl.token # NoToken
    /\ PreFoundTokens # {}

\* C8: when lookup matches a stored account, token persistence is on, the
\* SocialLogin has a token and a token is stored for (stored account, the
\* candidate token's app), the stored token takes the candidate's token
\* and expires_at, takes the candidate's token_secret only if that is not
\* empty and keeps its own otherwise, is saved (no other token row
\* changes), and becomes the SocialLogin's token.
C8_RefreshTokenRetention ==
    TokenRefreshed =>
        \A t0 \in PreFoundTokens :
            /\ outcome = "ok"
            /\ sl.token.pk = t0.pk
            /\ sl.token.app = t0.app
            /\ sl.token.account = t0.account
            /\ sl.token.token = pre.sl.token.token
            /\ sl.token.expires_at = pre.sl.token.expires_at
            /\ sl.token.token_secret =
                  IF pre.sl.token.token_secret # ""
                  THEN pre.sl.token.token_secret
                  ELSE t0.token_secret
            /\ tokens = (pre.tokens \ {t0}) \cup {sl.token}
            /\ effects[Len(effects)] = Effect("token.save", t0.pk, <<>>)

\* C8 witness: the stored token (a1, r1) met a candidate (a2, no secret):
\* it now holds a2 and still r1.
C8_Witness ==
    /\ TokenRefreshed
    /\ pre.sl.token.token_secret = ""
    /\ \E t0 \in PreFoundTokens :
          t0.token = "a1" /\ t0.token_secret = "r1" /\ t0.expires_at = 0
    /\ sl.token.token = "a2"
    /\ sl.token.token_secret = "r1"
    /\ sl.token.expires_at = 1
    /\ sl.token \in tokens

\* the SocialLogin save works on: connect has replaced its user by then
SaveCalled == call.op \in {"save", "connect"}

\* C9: save, called directly or by connect, on a SocialLogin that is
\* existing raises AssertionError (not PermissionDenied, and never a
\* return without error) before anything is written: the tables are as
\* they were and the SocialLogin's account is untouched.
C9_SaveExistingFails ==
    (SaveCalled /\ is_existing(pre.sl)) =>
        /\ outcome = "AssertionError"
        /\ outcome \notin {"ok", "PermissionDenied"}
        /\ TablesUnchanged
        /\ sl.account = pre.sl.account
        /\ sl.token = pre.sl.token

\* C9 witness: connect on an existing SocialLogin replaced the user and
\* then failed.
C9_Witness ==
    /\ call.op = "connect"
    /\ is_existing(pre.sl)
    /\ outcome = "AssertionError"
    /\ sl.user # pre.sl.user
    /\ pre.tokens # {}

EffectsOf(what) == { i \in 1..Len(effects) : effects[i].what = what }

SaveCompleted == SaveCalled /\ outcome = "ok"

\* the last call was to store the SocialLogin's token
PreStoring == storeTokens /\ pre.sl.token # NoToken

\* C12: in every reachable state the SocialLogin's token, if it has one,
\* is bound to no account or to the account the SocialLogin holds.
C12_TokenBoundToSessionAccount ==
    sl.token # NoToken => sl.token.account \in {NoAccount, sl.account.pk}

\* C12: the state the code reaches against it: a lookup with token
\* persistence off matched, the SocialLogin now holds the stored account
\* and its token is still bound to the unsaved candidate.
C12_DanglingAfterMatch ==
    /\ LookupMatched
    /\ ~storeTokens
    /\ outcome = "ok"
    /\ is_existing(sl)
    /\ sl.token # NoToken
    /\ sl.token.account = CandidateAccount

\* C14: save writes in a fixed order: the user first, then the account,
\* bound to that user, then, only when token persistence is on and the
\* SocialLogin has a token, the token, bound to that account; the account
\* is never written before the user nor the token before the account.
C14_SaveWriteOrder ==
    SaveCalled =>
        /\ \A i \in EffectsOf("account.save") :
              \E j \in EffectsOf("user.save") : j < i
        /\ \A i \in EffectsOf("token.save") :
              \E j \in EffectsOf("account.save") : j < i
        /\ SaveCompleted =>
              /\ Len(effects) >= 2
              /\ effects[1] = Effect("user.save", sl.user.pk, <<>>)
              /\ sl.user \in users
              /\ effects[2] = Effect("account.save", sl.account.pk, <<>>)
              /\ sl.account \in accounts
              /\ sl.account.user = sl.user.pk
              /\ IF PreStoring
                 THEN /\ Len(effects) >= 3
                      /\ effects[3] = Effect("token.save", sl.token.pk, <<>>)
                      /\ sl.token \in tokens
                      /\ sl.token.account = sl.account.pk
                 ELSE /\ EffectsOf("token.save") = {}
                      /\ tokens = pre.tokens

\* C14 witness: a save wrote a new user, a new account and a new token.
C14_Witness ==
    /\ call.op = "save"
    /\ outcome = "ok"
    /\ PreStoring
    /\ sl.user \notin pre.users
    /\ sl.account \notin pre.accounts
    /\ sl.token \notin pre.tokens
    /\ Len(effects) = 4

\* C15: connect makes the given user the SocialLogin's user and saves, so
\* that the new stored account is owned by that user, and does not call
\* setup_user_email; a save that is not a connect and completes calls
\* setup_user_email exactly once, with the SocialLogin's user and e-mail
\* addresses, after the account was saved.
C15_ConnectSkipsEmailSetup ==
    /\ call.op = "connect" => sl.user = call.user
    /\ (call.op = "connect" /\ outcome = "ok") =>
          /\ sl.account \in accounts
          /\ sl.account \notin pre.accounts
          /\ sl.account.user = call.user.pk
          /\ call.user \in users
          /\ EffectsOf("setup_user_email") = {}
    /\ (call.op = "save" /\ outcome = "ok") =>
          /\ Cardinality(EffectsOf("setup_user_email")) = 1
          /\ \A i \in EffectsOf("setup_user_email") :
                /\ effects[i] = Effect("setup_user_email", sl.user.pk,
                                       pre.sl.email_addresses)
                /\ \E j \in EffectsOf("account.save") : j < i
                /\ i = Len(effects)

\* C15 witness: connect linked a new account, with its token and e-mail
\* addresses in hand, to the user who was logged in.
C15_Witness ==
    /\ call.op = "connect"
    /\ outcome = "ok"
    /\ pre.sl.user = NewUser
    /\ call.user.username = "bob"
    /\ pre.sl.email_addresses # <<>>
    /\ PreStoring
    /\ sl.account \in accounts

\* lookup matched, was to store the token, and no token was stored for
\* (stored account, the candidate token's app)
TokenCreated ==
    /\ LookupMatched
    /\ PreStoring
    /\ PreFoundTokens = {}

\* C16: when lookup matches a stored account, token persistence is on, the
\* SocialLogin has a token and no token is stored for (stored account, the
\* candidate token's app), lookup raises nothing, binds the candidate token
\* to the stored account, saves it as a new token row (no other token row
\* changes), and the candidate stays the SocialLogin's token.
C16_LookupCreatesToken ==
    TokenCreated =>
        /\ outcome = "ok"
        /\ sl.token.pk # 0
        /\ \A t0 \in pre.tokens : t0.pk # sl.token.pk
        /\ sl.token = [pre.sl.token EXCEPT !.account = sl.account.pk,
                                           !.pk = sl.token.pk]
        /\ \A a0 \in PreFound : sl.token.account = a0.pk
        /\ tokens = pre.tokens \cup {sl.token}
        /\ effects[Len(effects)] = Effect("token.save", sl.token.pk, <<>>)

\* C16 witness: the stored account had a token of the other app; the
\* candidate token, bound to no account when it came, is now a second row.
C16_Witness ==
    /\ TokenCreated
    /\ pre.tokens # {}
    /\ pre.sl.token.account = NoAccount
    /\ sl.token \in tokens
    /\ sl.token.account = sl.account.pk
    /\ Cardinality(tokens) = Cardinality(pre.tokens) + 1

C19_NoTokenTraffic ==
    (call.op \in {"lookup", "save", "connect"} /\ ~PreStoring) =>
        /\ tokens = pre.tokens
        /\ EffectsOf("token.get") = {}
        /\ EffectsOf("token.save") = {}
        /\ sl.token.pk = pre.sl.token.pk

\* C19 witness: with token persistence off a lookup matched for a
\* SocialLogin that has a token, and wrote the account only.
C19_Witness ==
    /\ LookupMatched
    /\ ~storeTokens
    /\ pre.sl.token # NoToken
    /\ outcome = "ok"
    /\ effects = <<Effect("account.save", sl.account.pk, <<>>)>>
    /\ tokens = pre.tokens

(***************************************************************************)
(* Claims about the verifier stash (checked under SpecStash)               *)
(***************************************************************************)
HasEntry(s) == SESSION_KEY \in DOMAIN s

IsPop == call.op \in {"unstash_state", "verify_and_unstash_state"}

\* C1: a verify_and_unstash_state call whose verifier differs from the
\* stashed one raises PermissionDenied and removes the entry all the same;
\* from then on, until the next stash_state, no entry is stashed and every
\* unstash_state or verify_and_unstash_state call raises PermissionDenied,
\* also one that supplies the verifier of the consumed entry.
C1_MismatchConsumesEntry ==
    /\ (call.op = "verify_and_unstash_state" /\ HasEntry(pre)
            /\ call.verifier # pre[SESSION_KEY][2])
          => /\ outcome = "PermissionDenied"
             /\ ret = {}
             /\ ~HasEntry(session)
             /\ burned = {pre[SESSION_KEY][2]}
    /\ burned # {} => ~HasEntry(session)
    /\ (burned # {} /\ IsPop) => (outcome = "PermissionDenied" /\ ret = {})

\* C1 witness: the verifier of an entry that a mismatching call consumed is
\* replayed, finds nothing stashed and is refused.
C1_Witness ==
    /\ call.op = "verify_and_unstash_state"
    /\ call.verifier \in burned
    /\ ~HasEntry(pre)
    /\ outcome = "PermissionDenied"

\* C2: verify_and_unstash_state returns the stashed state exactly when an
\* entry was stashed and the supplied verifier equals the stored one; in
\* every other case it raises PermissionDenied and returns nothing.
C2_VerifyReturnsIffMatch ==
    call.op = "verify_and_unstash_state" =>
        IF HasEntry(pre) /\ call.verifier = pre[SESSION_KEY][2]
        THEN outcome = "ok" /\ ret = {pre[SESSION_KEY][1]}
        ELSE outcome = "PermissionDenied" /\ ret = {}

\* C2 witness: a matching verifier gets back a stashed state that carries
\* a redirect target.
C2_Witness ==
    /\ call.op = "verify_and_unstash_state"
    /\ HasEntry(pre)
    /\ call.verifier = pre[SESSION_KEY][2]
    /\ outcome = "ok"
    /\ \E st \in ret : "next" \in DOMAIN st

\* C3: stash_state stores the state it derived from the request together
\* with the verifier it returns; unstash_state on a stashed entry returns
\* exactly that state and removes the entry (and nothing else); with
\* nothing stashed it raises PermissionDenied and leaves the session store
\* as it was.
C3_StashUnstashRoundTrip ==
    /\ call.op = "stash_state" =>
          /\ outcome = "ok"
          /\ ret \subseteq Verifiers
          /\ \E v \in ret :
                session = SessionSet(pre, SESSION_KEY,
                                     <<state_from_request(call.request), v>>)
    /\ call.op = "unstash_state" =>
          IF HasEntry(pre)
          THEN /\ outcome = "ok"
               /\ \A l \in latest : ret = {state_from_request(l.request)}
               /\ ret = {pre[SESSION_KEY][1]}
               /\ session = SessionPop(pre, SESSION_KEY)
               /\ ~HasEntry(session)
          ELSE /\ outcome = "PermissionDenied"
               /\ ret = {}
               /\ session = pre

\* C3 witness: a second unstash_state, after the first one consumed the
\* entry of a request that carried a redirect target, is refused.
C3_Witness ==
    /\ call.op = "unstash_state"
    /\ ~HasEntry(pre)
    /\ outcome = "PermissionDenied"
    /\ pendingCount = 0
    /\ \E l \in latest : "next" \in DOMAIN l.state
    /\ OtherKey \in DOMAIN session

\* C4: the session store holds an entry under the fixed key exactly while a
\* stash_state is pending, and the entry is the one of the newest
\* stash_state: a call changes no key but the fixed one, a new stash_state
\* replaces the previous pair, and verify_and_unstash_state on a stashed
\* entry succeeds exactly for the newest verifier and returns the newest
\* state.
C4_NewStashOverwrites ==
    /\ HasEntry(session) <=> pendingCount > 0
    /\ HasEntry(session) =>
          \A l \in latest : session[SESSION_KEY] = <<l.state, l.verifier>>
    /\ pendingCount > 0 => latest # {}
    /\ \A k \in (DOMAIN session \cup DOMAIN pre) \ {SESSION_KEY} :
          k \in DOMAIN session /\ k \in DOMAIN pre /\ session[k] = pre[k]
    /\ (call.op = "verify_and_unstash_state" /\ HasEntry(pre)) =>
          \A l \in latest :
             /\ outcome = "ok" <=> call.verifier = l.verifier
             /\ outcome = "ok" => ret = {l.state}

\* C4 witness: after stash_state returned v1 and a second stash_state
\* returned v2 for another request, v2 is accepted.
C4_Witness ==
    /\ call.op = "verify_and_unstash_state"
    /\ outcome = "ok"
    /\ overwritten # {}
    /\ call.verifier \notin overwritten
    /\ pre[SESSION_KEY][1] # state_from_request(NoRequest)

\* the first verifier of two is refused once the second stash_state ran
C4_OldVerifierRefused ==
    /\ call.op = "verify_and_unstash_state"
    /\ HasEntry(pre)
    /\ call.verifier \in overwritten
    /\ outcome = "PermissionDenied"

=============================================================================
